---- MODULE Spec2Model ----
(***************************************************************************)
(* Model of tutorials/tutorial_4.ipynb: the sequential model builders, the *)
(* data simulator, the single training step cell and train_network.        *)
(*                                                                         *)
(* Numbers are fixed point.  A parameter, a prediction, a target and a     *)
(* gradient are integers in units of 0.01 (the learning rate of line 476,  *)
(* so that one unit of parameter change is lr * 1).  A loss is in units of *)
(* 0.0001.  The regression network is stood for by its last affine stage   *)
(* with one weight and one bias (prediction = w * x + b): the tensor       *)
(* library, its autodiff and the optimizer arithmetic are dependencies of  *)
(* the notebook, modelled by what they do to the notebook's state.         *)
(***************************************************************************)
EXTENDS Integers, Sequences, FiniteSets, TLC

---------------------------------------------------------------------------
(* Bounds of the model *)

\* train_network is called with num_epochs in 0..MaxEpochs
MaxEpochs == 4
\* train_network is called with log_interval in 0..MaxInterval
MaxInterval == 3
\* optimizer.step() is called at most MaxSteps times in a run of the notebook
MaxSteps == 6
\* the optimizer-construction cell is run at most MaxCellRuns times
MaxCellRuns == 1
\* a model is built from at most MaxStages stage descriptors
MaxStages == 2
\* the loss is evaluated on batches of 1..MaxBatch elements
MaxBatch == 2
\* simulate_data is called with num_samples in -MaxSamples..MaxSamples
MaxSamples == 3

---------------------------------------------------------------------------
(* Arithmetic helpers *)

Abs(a) == IF a < 0 THEN -a ELSE a

Sign(a) == IF a < 0 THEN -1 ELSE IF a > 0 THEN 1 ELSE 0

\* division rounding toward zero, as a float quotient cut to the grid
TDiv(a, b) == Sign(a) * (Abs(a) \div b)

\* division rounding to the nearest grid point
RDiv(a, b) == Sign(a) * ((2 * Abs(a) + b) \div (2 * b))

RECURSIVE SumSeq(_)
SumSeq(s) == IF s = <<>> THEN 0 ELSE Head(s) + SumSeq(Tail(s))

RECURSIVE SqrtSearch(_, _, _)
SqrtSearch(n, lo, hi) ==
    IF lo >= hi THEN lo
    ELSE LET mid == (lo + hi + 1) \div 2
         IN  IF mid * mid <= n THEN SqrtSearch(n, mid, hi)
                               ELSE SqrtSearch(n, lo, mid - 1)

\* integer square root (floor); n < 2^30 in every use
ISqrt(n) == SqrtSearch(n, 0, 32767)

---------------------------------------------------------------------------
(* The tensor operations the notebook calls *)

\* the two parameter tensors of the model: 1 is the weight, 2 the bias
ParamIds == {1, 2}

\* model(inputs): one prediction per input row, parameters only read
ModelForward(p, xs) == [i \in 1..Len(xs) |-> p[1] * xs[i] + p[2]]

\* a loss that averages the differences without squaring them
MeanError(preds, ys) ==
    TDiv(SumSeq([i \in 1..Len(preds) |-> preds[i] - ys[i]]), Len(preds))

\* nn.MSELoss()(predictions, targets): the mean of the squared differences
MSELoss(preds, ys) ==
    SumSeq([i \in 1..Len(preds) |-> (preds[i] - ys[i]) * (preds[i] - ys[i])])
        \div Len(preds)

\* the gradient of the loss with respect to each parameter, computed from
\* the graph the forward pass recorded (its predictions and inputs)
LossGradient(preds, xs, ys) ==
    LET n == Len(preds)
        dw == SumSeq([i \in 1..n |-> (preds[i] - ys[i]) * xs[i]])
        db == SumSeq([i \in 1..n |-> preds[i] - ys[i]])
    IN  <<TDiv(2 * dw, n), TDiv(2 * db, n)>>

\* a zero_grad that clears nothing
KeepGrad(g) == g

\* optimizer.zero_grad(): every parameter's .grad becomes None
ZeroGrad(g) == [i \in ParamIds |-> <<>>]

\* loss.backward(): the gradient is stored in a .grad that is None and
\* added to a .grad that holds a value
Accumulate(g, new) ==
    [i \in ParamIds |-> IF g[i] = <<>> THEN <<new[i]>> ELSE <<g[i][1] + new[i]>>]

\* torch.optim.Adam(model.parameters(), lr=0.01): t = 0, m = v = 0
NewAdam == [made |-> TRUE, t |-> 0, m |-> <<0, 0>>, v |-> <<0, 0>>]

NoOptimizer == [made |-> FALSE, t |-> 0, m |-> <<0, 0>>, v |-> <<0, 0>>]

\* beta1^t with beta1 = 0.9, in units of 0.00001
RECURSIVE Beta1Pow(_)
Beta1Pow(t) == IF t = 0 THEN 100000 ELSE (Beta1Pow(t - 1) * 9) \div 10

\* beta2^t with beta2 = 0.999, in units of 0.000001
RECURSIVE Beta2Pow(_)
Beta2Pow(t) == IF t = 0 THEN 1000000 ELSE (Beta2Pow(t - 1) * 999) \div 1000

\* m <- beta1 * m + (1 - beta1) * g, m in units of 0.001
FirstMoment(m, g) == TDiv(9 * m, 10) + g

\* v <- beta2 * v + (1 - beta2) * g^2, v in units of 0.0000001
SecondMoment(v, g) == v - (v \div 1000) + g * g

\* lr * mhat / (sqrt(vhat) + eps) in parameter units; eps is below the grid
\* and only turns 0/0 into 0
AdamDelta(m1, v1, t1) ==
    LET bc1  == 100000 - Beta1Pow(t1)
        bc2  == 1000000 - Beta2Pow(t1)
        mhat == TDiv(m1 * 10000, bc1)
        vhat == (v1 \div bc2) * 1000 + ((v1 % bc2) * 1000) \div bc2
        d    == ISqrt(vhat)
    IN  IF mhat = 0 THEN 0 ELSE RDiv(mhat, IF d = 0 THEN 1 ELSE d)

\* a step counter advanced once per parameter tensor updated
StepCounterPerTensor(t, g) == t + Cardinality({i \in ParamIds : g[i] # <<>>})

\* the step counter after one optimizer.step(): one more, whatever the
\* number of parameter tensors updated
StepCounter(t, g) == IF \E i \in ParamIds : g[i] # <<>> THEN t + 1 ELSE t

\* the optimizer state after optimizer.step() with the gradients g held by
\* the parameters; a parameter whose .grad is None is skipped
AdamState(opt, g) ==
    [made |-> opt.made,
     t    |-> StepCounter(opt.t, g),
     m    |-> [i \in ParamIds |->
                 IF g[i] = <<>> THEN opt.m[i] ELSE FirstMoment(opt.m[i], g[i][1])],
     v    |-> [i \in ParamIds |->
                 IF g[i] = <<>> THEN opt.v[i] ELSE SecondMoment(opt.v[i], g[i][1])]]

\* the parameters after optimizer.step()
AdamParams(opt, p, g) ==
    LET new == AdamState(opt, g)
    IN  [i \in ParamIds |->
           IF g[i] = <<>> THEN p[i]
           ELSE p[i] - AdamDelta(new.m[i], new.v[i], new.t)]

---------------------------------------------------------------------------
(* State *)

VARIABLES
    params,         \* regression_net's parameters <<weight, bias>>
    grad,           \* each parameter's .grad: <<>> (None) or <<value>>
    optimizer,      \* the Adam optimizer: made, t, m, v
    inputs,         \* state_vars_tensor
    targets,        \* expected_return_tensor
    pc,             \* the statement about to run ("idle": between cells)
    ctx,            \* the code running or run last: "none", "cell", "train"
    predictions,    \* the latest forward pass's output
    loss,           \* the latest loss value
    epoch,          \* train_network's loop variable
    num_epochs,     \* train_network's argument
    log_interval,   \* train_network's argument
    loss_history,   \* train_network's local list
    result,         \* how the latest train_network call ended
    noGradPred,     \* initial_predictions / final_predictions
    cellRuns,       \* runs of the optimizer-construction cell so far
    totalSteps,     \* optimizer.step() calls so far, on any optimizer
    stepCalls,      \* history: optimizer.step() calls on this optimizer
    trace,          \* history: operations run by the current call or cell
    epochLoss,      \* history: the loss computed in each epoch of the call
    fwdParams,      \* history: parameters read by each forward pass of the call
    atCall,         \* history: parameters and optimizer when the call was made
    stepParams,     \* history: the parameters as the latest optimizer.step() left them
    net,            \* the stage list of the model under construction
    netState,       \* "unbuilt", "built", "applied" or "rejected"
    applied,        \* the outcome of applying net to an input batch
    simArg,         \* simulate_data's num_samples
    simResult       \* simulate_data's outcome ("running": in the call)

trainVars == <<params, grad, optimizer, inputs, targets, pc, ctx, predictions,
               loss, epoch, num_epochs, log_interval, loss_history, result,
               noGradPred, cellRuns, totalSteps, stepCalls, trace, epochLoss,
               fwdParams, atCall, stepParams>>

buildVars == <<net, netState, applied>>

dataVars == <<simArg, simResult>>

vars == <<trainVars, buildVars, dataVars>>

\* parameter values a freshly built regression network may hold
InitParams == {<<50, 0>>, <<-30, 20>>}

\* batches simulate_data may have produced (inputs in units of 1)
DataSets == {[x |-> <<1, 2>>, y |-> <<50, 100>>],
             [x |-> <<-1, 2>>, y |-> <<-40, 110>>]}

NoGrad == [i \in ParamIds |-> <<>>]

NoResult == [kind |-> "none", history |-> <<>>]

\* the notebook after its cells up to the definition of loss_fn have run
InitTrain ==
    /\ params \in InitParams
    /\ \E d \in DataSets : inputs = d.x /\ targets = d.y
    /\ grad = NoGrad
    /\ optimizer = NoOptimizer
    /\ pc = "idle"
    /\ ctx = "none"
    /\ predictions = <<>>
    /\ loss = <<>>
    /\ epoch = 0
    /\ num_epochs = 0
    /\ log_interval = 0
    /\ loss_history = <<>>
    /\ result = NoResult
    /\ noGradPred = <<>>
    /\ cellRuns = 0
    /\ totalSteps = 0
    /\ stepCalls = 0
    /\ trace = <<>>
    /\ epochLoss = <<>>
    /\ fwdParams = <<>>
    /\ atCall = [params |-> params, optimizer |-> NoOptimizer]
    /\ stepParams = params

InitBuild ==
    /\ net = <<>>
    /\ netState = "unbuilt"
    /\ applied = [kind |-> "none", width |-> 0, input |-> 0]

InitData ==
    /\ simArg = 0
    /\ simResult = [kind |-> "none", state_vars |-> <<>>, expected_return |-> <<>>]

Init == InitTrain /\ InitBuild /\ InitData

---------------------------------------------------------------------------
(* The single training step cell and train_network *)

\* a loop that stops one iteration short
LoopStopsEarly(e, n) == e + 1 < n

\* a loop whose body runs before its first test
LoopRunsOnce(e, n) == e < n \/ e = 0

\* for epoch in range(num_epochs): whether another iteration runs
LoopContinues(e, n) == e < n

\* the logging test on the 0-based epoch
LogDueZeroBased(e, l) == e % l = 0

\* if (epoch + 1) % log_interval == 0, for log_interval # 0
LogDue(e, l) == (e + 1) % l = 0

\* statement order of one training iteration: the statement after op
AfterOp(op, c) ==
    CASE op = "forward"   -> "loss"
      [] op = "loss"      -> "zero_grad"
      [] op = "zero_grad" -> "backward"
      [] op = "backward"  -> "step"
      [] op = "step"      -> IF c = "train" THEN "log" ELSE "idle"

\* with torch.no_grad(): initial_predictions = regression_net(state_vars_tensor)
Predict ==
    /\ pc = "idle"
    /\ noGradPred' = <<ModelForward(params, inputs)>>
    /\ UNCHANGED <<params, grad, optimizer, inputs, targets, pc, ctx,
                   predictions, loss, epoch, num_epochs, log_interval,
                   loss_history, result, cellRuns, totalSteps, stepCalls,
                   trace, epochLoss, fwdParams, atCall>>
    /\ UNCHANGED <<stepParams, buildVars, dataVars>>

\* optimizer = torch.optim.Adam(regression_net.parameters(), lr=0.01)
CellStart ==
    /\ pc = "idle"
    /\ cellRuns < MaxCellRuns
    /\ totalSteps < MaxSteps
    /\ optimizer' = NewAdam
    /\ stepCalls' = 0
    /\ cellRuns' = cellRuns + 1
    /\ ctx' = "cell"
    /\ pc' = "forward"
    /\ trace' = <<>>
    /\ epochLoss' = <<>>
    /\ fwdParams' = <<>>
    /\ atCall' = [params |-> params, optimizer |-> NewAdam]
    /\ UNCHANGED <<params, grad, inputs, targets, predictions, loss, epoch,
                   num_epochs, log_interval, loss_history, result, noGradPred,
                   totalSteps>>
    /\ UNCHANGED <<stepParams, buildVars, dataVars>>

\* a train_network that reinitialises the model on entry
TrainCallReset(E, L) ==
    /\ pc = "idle"
    /\ optimizer.made
    /\ totalSteps + E <= MaxSteps
    /\ params' \in InitParams
    /\ num_epochs' = E
    /\ log_interval' = L
    /\ loss_history' = <<>>
    /\ epoch' = 0
    /\ result' = NoResult
    /\ ctx' = "train"
    /\ pc' = "loop"
    /\ trace' = <<>>
    /\ epochLoss' = <<>>
    /\ fwdParams' = <<>>
    /\ atCall' = [params |-> params, optimizer |-> optimizer]
    /\ UNCHANGED <<grad, optimizer, inputs, targets, predictions,
                   loss, noGradPred, cellRuns, totalSteps, stepCalls>>
    /\ UNCHANGED <<stepParams, buildVars, dataVars>>

\* train_network(regression_net, optimizer, loss_fn, inputs, targets, E, L)
\* up to loss_history = []
TrainCall(E, L) ==
    /\ pc = "idle"
    /\ optimizer.made
    /\ totalSteps + E <= MaxSteps
    /\ num_epochs' = E
    /\ log_interval' = L
    /\ loss_history' = <<>>
    /\ epoch' = 0
    /\ result' = NoResult
    /\ ctx' = "train"
    /\ pc' = "loop"
    /\ trace' = <<>>
    /\ epochLoss' = <<>>
    /\ fwdParams' = <<>>
    /\ atCall' = [params |-> params, optimizer |-> optimizer]
    /\ UNCHANGED <<params, grad, optimizer, inputs, targets, predictions,
                   loss, noGradPred, cellRuns, totalSteps, stepCalls>>
    /\ UNCHANGED <<stepParams, buildVars, dataVars>>

\* the head of the for loop, and return loss_history when it is exhausted
LoopTest ==
    /\ pc = "loop"
    /\ IF LoopContinues(epoch, num_epochs)
       THEN /\ pc' = "forward"
            /\ UNCHANGED result
       ELSE /\ pc' = "idle"
            /\ result' = [kind |-> "returned", history |-> loss_history]
    /\ UNCHANGED <<ctx, params, grad, optimizer, inputs, targets, predictions,
                   loss, epoch, num_epochs, log_interval, loss_history,
                   noGradPred, cellRuns, totalSteps, stepCalls, trace,
                   epochLoss, fwdParams, atCall>>
    /\ UNCHANGED <<stepParams, buildVars, dataVars>>

\* a forward pass that writes to the bias in place
ForwardInPlace ==
    /\ pc = "forward"
    /\ predictions' = ModelForward(params, inputs)
    /\ params' = [params EXCEPT ![2] = @ + 1]
    /\ fwdParams' = Append(fwdParams, params)
    /\ trace' = Append(trace, "forward")
    /\ pc' = AfterOp("forward", ctx)
    /\ UNCHANGED <<grad, optimizer, inputs, targets, ctx, loss, epoch,
                   num_epochs, log_interval, loss_history, result, noGradPred,
                   cellRuns, totalSteps, stepCalls, epochLoss, atCall>>
    /\ UNCHANGED <<stepParams, buildVars, dataVars>>

\* predictions = model(inputs)
Forward ==
    /\ pc = "forward"
    /\ predictions' = ModelForward(params, inputs)
    /\ fwdParams' = Append(fwdParams, params)
    /\ trace' = Append(trace, "forward")
    /\ pc' = AfterOp("forward", ctx)
    /\ UNCHANGED <<params, grad, optimizer, inputs, targets, ctx, loss, epoch,
                   num_epochs, log_interval, loss_history, result, noGradPred,
                   cellRuns, totalSteps, stepCalls, epochLoss, atCall>>
    /\ UNCHANGED <<stepParams, buildVars, dataVars>>

\* loss = loss_fn(predictions, targets)
Loss ==
    /\ pc = "loss"
    /\ loss' = <<MSELoss(predictions, targets)>>
    /\ epochLoss' = Append(epochLoss, MSELoss(predictions, targets))
    /\ trace' = Append(trace, "loss")
    /\ pc' = AfterOp("loss", ctx)
    /\ UNCHANGED <<params, grad, optimizer, inputs, targets, ctx, predictions,
                   epoch, num_epochs, log_interval, loss_history, result,
                   noGradPred, cellRuns, totalSteps, stepCalls, fwdParams,
                   atCall>>
    /\ UNCHANGED <<stepParams, buildVars, dataVars>>

\* optimizer.zero_grad()
ClearGradients ==
    /\ pc = "zero_grad"
    /\ grad' = ZeroGrad(grad)
    /\ trace' = Append(trace, "zero_grad")
    /\ pc' = AfterOp("zero_grad", ctx)
    /\ UNCHANGED <<params, optimizer, inputs, targets, ctx, predictions, loss,
                   epoch, num_epochs, log_interval, loss_history, result,
                   noGradPred, cellRuns, totalSteps, stepCalls, epochLoss,
                   fwdParams, atCall>>
    /\ UNCHANGED <<stepParams, buildVars, dataVars>>

\* loss.backward()
Backward ==
    /\ pc = "backward"
    /\ grad' = Accumulate(grad, LossGradient(predictions, inputs, targets))
    /\ trace' = Append(trace, "backward")
    /\ pc' = AfterOp("backward", ctx)
    /\ UNCHANGED <<params, optimizer, inputs, targets, ctx, predictions, loss,
                   epoch, num_epochs, log_interval, loss_history, result,
                   noGradPred, cellRuns, totalSteps, stepCalls, epochLoss,
                   fwdParams, atCall>>
    /\ UNCHANGED <<stepParams, buildVars, dataVars>>

\* an optimizer step that clears the gradients it has applied
OptimizerStepClearing ==
    /\ pc = "step"
    /\ optimizer' = AdamState(optimizer, grad)
    /\ params' = AdamParams(optimizer, params, grad)
    /\ grad' = NoGrad
    /\ stepCalls' = stepCalls + 1
    /\ totalSteps' = totalSteps + 1
    /\ trace' = Append(trace, "step")
    /\ pc' = AfterOp("step", ctx)
    /\ stepParams' = AdamParams(optimizer, params, grad)
    /\ UNCHANGED <<ctx, inputs, targets, predictions, loss, epoch,
                   num_epochs, log_interval, loss_history, result, noGradPred,
                   cellRuns, epochLoss, fwdParams, atCall>>
    /\ UNCHANGED <<buildVars, dataVars>>

\* optimizer.step()
OptimizerStep ==
    /\ pc = "step"
    /\ optimizer' = AdamState(optimizer, grad)
    /\ params' = AdamParams(optimizer, params, grad)
    /\ stepCalls' = stepCalls + 1
    /\ totalSteps' = totalSteps + 1
    /\ trace' = Append(trace, "step")
    /\ pc' = AfterOp("step", ctx)
    /\ stepParams' = AdamParams(optimizer, params, grad)
    /\ UNCHANGED <<ctx, grad, inputs, targets, predictions, loss, epoch,
                   num_epochs, log_interval, loss_history, result, noGradPred,
                   cellRuns, epochLoss, fwdParams, atCall>>
    /\ UNCHANGED <<buildVars, dataVars>>

\* a logging step that records the loss of the parameters after the step
LogLossRecomputed ==
    /\ pc = "log"
    /\ IF log_interval = 0
       THEN /\ pc' = "idle"
            /\ result' = [kind |-> "ZeroDivisionError", history |-> <<>>]
            /\ UNCHANGED <<loss_history, epoch>>
       ELSE /\ pc' = "loop"
            /\ epoch' = epoch + 1
            /\ loss_history' =
                   IF LogDue(epoch, log_interval)
                   THEN Append(loss_history,
                               MSELoss(ModelForward(params, inputs), targets))
                   ELSE loss_history
            /\ UNCHANGED result
    /\ UNCHANGED <<ctx, params, grad, optimizer, inputs, targets, predictions,
                   loss, num_epochs, log_interval, noGradPred, cellRuns,
                   totalSteps, stepCalls, trace, epochLoss, fwdParams, atCall>>
    /\ UNCHANGED <<stepParams, buildVars, dataVars>>

\* a logging step that takes log_interval = 0 to mean "never log"
LogLossSkipsZero ==
    /\ pc = "log"
    /\ pc' = "loop"
    /\ epoch' = epoch + 1
    /\ loss_history' = IF log_interval # 0 /\ LogDue(epoch, log_interval)
                       THEN Append(loss_history, loss[1])
                       ELSE loss_history
    /\ UNCHANGED <<result, ctx, params, grad, optimizer, inputs, targets,
                   predictions, loss, num_epochs, log_interval, noGradPred,
                   cellRuns, totalSteps, stepCalls, trace, epochLoss,
                   fwdParams, atCall>>
    /\ UNCHANGED <<stepParams, buildVars, dataVars>>

\* if (epoch + 1) % log_interval == 0: print, loss_history.append(loss.item());
\* the modulo raises ZeroDivisionError when log_interval is 0
LogLoss ==
    /\ pc = "log"
    /\ IF log_interval = 0
       THEN /\ pc' = "idle"
            /\ result' = [kind |-> "ZeroDivisionError", history |-> <<>>]
            /\ UNCHANGED <<loss_history, epoch>>
       ELSE /\ pc' = "loop"
            /\ epoch' = epoch + 1
            /\ loss_history' = IF LogDue(epoch, log_interval)
                               THEN Append(loss_history, loss[1])
                               ELSE loss_history
            /\ UNCHANGED result
    /\ UNCHANGED <<ctx, params, grad, optimizer, inputs, targets, predictions,
                   loss, num_epochs, log_interval, noGradPred, cellRuns,
                   totalSteps, stepCalls, trace, epochLoss, fwdParams, atCall>>
    /\ UNCHANGED <<stepParams, buildVars, dataVars>>

Next ==
    \/ Predict
    \/ CellStart
    \/ \E E \in 0..MaxEpochs, L \in 0..MaxInterval : TrainCall(E, L)
    \/ LoopTest
    \/ Forward
    \/ Loss
    \/ ClearGradients
    \/ Backward
    \/ OptimizerStep
    \/ LogLoss

Spec == Init /\ [][Next]_vars

\* the steps of the code that is running: it runs to completion
Running ==
    \/ LoopTest
    \/ Forward
    \/ Loss
    \/ ClearGradients
    \/ Backward
    \/ OptimizerStep
    \/ LogLoss

\* the training cells alone
TrainNext ==
    \/ CellStart
    \/ \E E \in 0..MaxEpochs, L \in 0..MaxInterval : TrainCall(E, L)
    \/ Running

\* the training cells, with the interpreter never stopping in mid-call:
\* the code is synchronous and every statement completes
FairSpec == Init /\ [][TrainNext]_vars /\ WF_vars(Running)

---------------------------------------------------------------------------
(* Claims about train_network *)

\* the operations of one training iteration, in program order
EpochOps == <<"forward", "loss", "zero_grad", "backward", "step">>

\* n iterations' worth of operations
RECURSIVE Repeated(_)
Repeated(n) == IF n = 0 THEN <<>> ELSE Repeated(n - 1) \o EpochOps

\* train_network has been entered and has run nothing yet
Called == ctx = "train" /\ pc = "loop" /\ trace = <<>>

\* the latest train_network call has returned its loss history
Returned == ctx = "train" /\ pc = "idle" /\ result.kind = "returned"

\* the gradient of the loss of the latest forward pass, as .grad values
FreshGrad ==
    [i \in ParamIds |-> <<LossGradient(predictions, inputs, targets)[i]>>]

\* C1: for every E >= 0 and L >= 1 a train_network call terminates, and
\* when it has returned it has run exactly E iterations, each one forward
\* pass, one loss computation, one gradient computation and one optimizer
\* step, whatever the loss values were.
C1_RunsExactlyEEpochs ==
    /\ []((Returned /\ log_interval >= 1) => trace = Repeated(num_epochs))
    /\ ((Called /\ log_interval >= 1) ~> Returned)

C1_Witness ==
    /\ Returned
    /\ log_interval >= 1
    /\ num_epochs = 3
    /\ Len(trace) = 15
    /\ \E k \in 1..Len(epochLoss) : epochLoss[k] = 0

\* C2: for E >= 0 and L >= 1 the returned loss history has floor(E / L)
\* entries and its k-th entry is the loss computed in epoch k * L; the
\* losses of the other epochs are not recorded.
C2_HistoryEveryLthEpoch ==
    (Returned /\ log_interval >= 1) =>
        /\ Len(result.history) = num_epochs \div log_interval
        /\ Len(epochLoss) = num_epochs
        /\ \A k \in 1..Len(result.history) :
               result.history[k] = epochLoss[k * log_interval]

C2_Witness ==
    /\ Returned
    /\ num_epochs = 4
    /\ log_interval = 2
    /\ Len(result.history) = 2
    /\ epochLoss[1] # epochLoss[2]
    /\ epochLoss[3] # epochLoss[4]

\* C3: a call with zero epochs returns an empty loss history and leaves
\* the parameters, the step counter and the moment estimates as they were.
C3_ZeroEpochsChangeNothing ==
    (ctx = "train" /\ num_epochs = 0) =>
        /\ pc \in {"loop", "idle"}
        /\ params = atCall.params
        /\ optimizer = atCall.optimizer
        /\ trace = <<>>
        /\ (pc = "idle" => result = [kind |-> "returned", history |-> <<>>])

C3_Witness ==
    /\ Returned
    /\ num_epochs = 0
    /\ optimizer.t >= 2
    /\ params \notin InitParams

\* C4: the first forward pass of a call reads the parameter values the
\* model held when the call was made, and those are the values the latest
\* optimizer step (of an earlier call or of the cell) left: nothing
\* reinitialises the model.
C4_NoReinitialisation ==
    ctx = "train" =>
        /\ (fwdParams # <<>> => fwdParams[1] = atCall.params)
        /\ (trace = <<>> => atCall.params = stepParams /\ params = stepParams)

C4_Witness ==
    /\ ctx = "train"
    /\ cellRuns = 1
    /\ atCall.optimizer.t >= 2
    /\ fwdParams # <<>>
    /\ fwdParams[1] = atCall.params
    /\ atCall.params \notin InitParams

\* C5: the step counter is 0 at construction and grows by one per
\* optimizer.step() call, so it equals the number of step calls made on
\* the optimizer, and a returned call with E epochs has raised it by E.
C5_StepCounter ==
    /\ optimizer.t = stepCalls
    /\ (Returned /\ log_interval >= 1) =>
           optimizer.t = atCall.optimizer.t + num_epochs

C5_Witness ==
    /\ Returned
    /\ log_interval >= 1
    /\ num_epochs = 3
    /\ atCall.optimizer.t = 2
    /\ optimizer.t = 5

\* C6: the operations of a call run in the order forward, loss, gradient
\* clearing, gradient computation, optimizer step, and the gradient an
\* optimizer step uses is the gradient of that epoch's loss alone.
C6_OrderAndFreshGradient ==
    ctx = "train" =>
        /\ \A k \in 1..Len(trace) : trace[k] = EpochOps[((k - 1) % 5) + 1]
        /\ (pc = "step" =>
               /\ predictions = ModelForward(params, inputs)
               /\ fwdParams[Len(fwdParams)] = params
               /\ grad = FreshGrad)

C6_Witness ==
    /\ ctx = "train"
    /\ pc = "step"
    /\ epoch = 2
    /\ grad = FreshGrad
    /\ grad[1][1] # 0

\* C7 as stated: after the optimizer step of an epoch, and so after
\* train_network has returned, no parameter still holds a gradient.
C7_GradientsDiscardedAfterStep ==
    (ctx = "train" /\ trace # <<>> /\ pc \in {"log", "loop", "idle"}) =>
        grad = NoGrad

\* C7 as amended: the optimizer step discards nothing.  After the step of
\* an epoch, and after train_network has returned from E >= 1 epochs, every
\* parameter still holds the gradient of the latest epoch's loss; the
\* gradients are cleared only by the zero_grad of the next iteration, so
\* that every backward pass starts from cleared gradients.
C7_GradientsKeptUntilCleared ==
    ctx = "train" =>
        /\ (trace # <<>> /\ pc \in {"log", "loop", "idle"}) => grad = FreshGrad
        /\ (pc = "backward" => grad = NoGrad)

C7_Witness ==
    /\ Returned
    /\ num_epochs = 2
    /\ grad = FreshGrad
    /\ grad[1][1] # 0
    /\ grad[2][1] # 0

\* C8: parameters are mutated only by the optimizer step: the forward pass
\* (in a call, in the cell, under no_grad), the loss computation, the
\* gradient clearing and the gradient computation leave the parameters and
\* the optimizer's t, m and v as they were.
C8_OnlyStepMutates ==
    [][/\ (pc \in {"forward", "loss", "zero_grad", "backward"}
             => params' = params /\ optimizer' = optimizer)
       /\ (pc = "idle" /\ pc' = "idle"
             => params' = params /\ optimizer' = optimizer)
       /\ (params' # params => pc = "step")]_vars

C8_Witness ==
    /\ ctx = "train"
    /\ pc = "step"
    /\ epoch = 1
    /\ noGradPred # <<>>
    /\ params # atCall.params

---------------------------------------------------------------------------
(* The model builders *)

Linear(i, o) == [kind |-> "Linear", in |-> i, out |-> o]

ReLU == [kind |-> "ReLU", in |-> 0, out |-> 0]

LayerNorm(w) == [kind |-> "LayerNorm", in |-> w, out |-> w]

\* a regression network whose second hidden layer is narrower than the
\* normalization that follows it
build_regression_network_narrow ==
    <<Linear(1, 32), ReLU, LayerNorm(32),
      Linear(32, 16), ReLU, LayerNorm(32), Linear(32, 1)>>

\* a normalized network with an activation after its output layer
build_normalized_network_activated ==
    <<Linear(4, 32), ReLU, LayerNorm(32),
      Linear(32, 32), ReLU, LayerNorm(32), Linear(32, 2), ReLU>>

build_simple_network == <<Linear(4, 32), Linear(32, 32), Linear(32, 2)>>

build_network_with_activation ==
    <<Linear(4, 32), ReLU, Linear(32, 32), ReLU, Linear(32, 2)>>

build_normalized_network ==
    <<Linear(4, 32), ReLU, LayerNorm(32),
      Linear(32, 32), ReLU, LayerNorm(32), Linear(32, 2)>>

build_regression_network ==
    <<Linear(1, 32), ReLU, LayerNorm(32),
      Linear(32, 32), ReLU, LayerNorm(32), Linear(32, 1)>>

Builders == {build_simple_network, build_network_with_activation,
             build_normalized_network, build_regression_network}

\* stages of small widths, for stage lists other than the notebook's
SmallStages ==
    {Linear(i, o) : i \in {1, 2}, o \in {1, 2}} \cup {ReLU}
        \cup {LayerNorm(w) : w \in {1, 2}}

StageLists == Builders \cup UNION {[1..k -> SmallStages] : k \in 1..MaxStages}

\* widths of the input batches a model is applied to
InputWidths == {1, 2, 4}

\* nn.Sequential(...) stores its stages in order and compares no widths:
\* it accepts every stage list
SequentialAccepts(stages) == TRUE

\* a stage that applies to an input of any width
ApplyStageUnchecked(stage, w) ==
    IF stage.kind = "Linear" THEN [kind |-> "ok", width |-> stage.out]
    ELSE [kind |-> "ok", width |-> w]

\* one stage applied to a batch of width w: Linear needs w = in_features
\* and gives out_features, ReLU keeps w, LayerNorm needs and keeps its width
ApplyStage(stage, w) ==
    CASE stage.kind = "Linear" ->
           IF w = stage.in THEN [kind |-> "ok", width |-> stage.out]
                           ELSE [kind |-> "RuntimeError", width |-> 0]
      [] stage.kind = "ReLU" -> [kind |-> "ok", width |-> w]
      [] stage.kind = "LayerNorm" ->
           IF w = stage.in THEN [kind |-> "ok", width |-> w]
                           ELSE [kind |-> "RuntimeError", width |-> 0]

\* model(batch): the stages applied in order, stopping at the first error
RECURSIVE ApplyStages(_, _)
ApplyStages(stages, w) ==
    IF stages = <<>> THEN [kind |-> "ok", width |-> w]
    ELSE LET r == ApplyStage(Head(stages), w)
         IN  IF r.kind = "ok" THEN ApplyStages(Tail(stages), r.width) ELSE r

\* model = nn.Sequential(...stages...)
Construct ==
    /\ \E stages \in StageLists :
          IF SequentialAccepts(stages)
          THEN net' = stages /\ netState' = "built"
          ELSE net' = <<>> /\ netState' = "rejected"
    /\ applied' = [kind |-> "none", width |-> 0, input |-> 0]
    /\ UNCHANGED <<trainVars, dataVars>>

\* the first call model(batch) on a constructed model
Apply ==
    /\ netState = "built"
    /\ \E w \in InputWidths :
          applied' = [kind  |-> ApplyStages(net, w).kind,
                      width |-> ApplyStages(net, w).width,
                      input |-> w]
    /\ netState' = "applied"
    /\ UNCHANGED <<net, trainVars, dataVars>>

BuildNext ==
    \/ Construct
    \/ Apply

SpecBuild == Init /\ [][BuildNext]_vars

---------------------------------------------------------------------------
(* The data simulator *)

\* the standard scores a draw may take
ZScores == {-1, 0, 1}

\* a generator that also refuses an empty size
SizePositive(n) == n > 0

\* rng.normal(size=n) raises ValueError for a negative n
SizeAccepted(n) == n >= 0

\* rng.normal(loc, scale, size=n): the arrays that may be drawn
Normal(loc, scale, n) == [1..n -> {loc + scale * z : z \in ZScores}]

\* the call simulate_data(num_samples)
SimulateCall(N) ==
    /\ simResult.kind # "running"
    /\ simArg' = N
    /\ simResult' = [kind |-> "running", state_vars |-> <<>>,
                     expected_return |-> <<>>]
    /\ UNCHANGED <<trainVars, buildVars>>

\* the body of simulate_data, values in units of 0.01: the two draws, and
\* expected_return = state_vars * 0.5 + noise
SimulateData ==
    /\ simResult.kind = "running"
    /\ IF ~SizeAccepted(simArg)
       THEN simResult' = [kind |-> "ValueError", state_vars |-> <<>>,
                          expected_return |-> <<>>]
       ELSE \E sv \in Normal(0, 100, simArg), noise \in Normal(0, 25, simArg) :
               simResult' =
                   [kind |-> "returned",
                    state_vars |-> sv,
                    expected_return |->
                        [i \in 1..simArg |-> TDiv(sv[i] * 5, 10) + noise[i]]]
    /\ UNCHANGED <<simArg, trainVars, buildVars>>

DataNext ==
    \/ \E N \in (-MaxSamples)..MaxSamples : SimulateCall(N)
    \/ SimulateData

SpecData == Init /\ [][DataNext]_vars

---------------------------------------------------------------------------
(* Claims about the builders and the data simulator *)

\* the width stage i hands on (0: whatever it was given, not yet known)
RECURSIVE OutWidthAt(_, _)
OutWidthAt(stages, i) ==
    IF stages[i].kind = "ReLU"
    THEN IF i = 1 THEN 0 ELSE OutWidthAt(stages, i - 1)
    ELSE stages[i].out

\* adjacent stage widths agree, activations passing their width through
WidthsAgree(stages) ==
    \A i \in 1..(Len(stages) - 1) :
        \/ stages[i + 1].kind = "ReLU"
        \/ OutWidthAt(stages, i) = 0
        \/ OutWidthAt(stages, i) = stages[i + 1].in

\* the batch has the width the first parametric stage expects
RECURSIVE InputFits(_, _)
InputFits(stages, w) ==
    IF stages = <<>> THEN TRUE
    ELSE IF Head(stages).kind = "ReLU" THEN InputFits(Tail(stages), w)
    ELSE Head(stages).in = w

---------------------------------------------------------------------------
(* Claims about the models the builders return *)

\* the width of the batches a model is built for: its first affine stage's
FirstWidth(stages) == stages[1].in

\* the width of the model's output: its last affine stage's
LastWidth(stages) == stages[Len(stages)].out

\* C11: in every model a builder returns, the output width of each stage
\* is the input width of the next, activations passing their width
\* through and normalizations requiring and keeping theirs; so the model
\* applies to a batch of its input width without a shape error.
C11_BuilderWidthsAgree ==
    (netState \in {"built", "applied"} /\ net \in Builders) =>
        /\ WidthsAgree(net)
        /\ (netState = "applied" /\ applied.input = FirstWidth(net)) =>
               (applied.kind = "ok" /\ applied.width = LastWidth(net))

C11_Witness ==
    /\ netState = "applied"
    /\ net = build_regression_network
    /\ applied.input = 1
    /\ applied.kind = "ok"
    /\ applied.width = 1

\* C12: in every model a builder returns the last stage is a bare affine
\* stage, and every activation or normalization stage has an affine stage
\* somewhere after it.
C12_BuilderEndsWithAffine ==
    (netState \in {"built", "applied"} /\ net \in Builders) =>
        /\ net[Len(net)].kind = "Linear"
        /\ \A i \in 1..Len(net) :
               net[i].kind # "Linear" =>
                   \E j \in (i + 1)..Len(net) : net[j].kind = "Linear"

C12_Witness ==
    /\ netState = "built"
    /\ net = build_normalized_network
    /\ net[6].kind = "LayerNorm"
    /\ net[7].kind = "Linear"

---------------------------------------------------------------------------
(* The loss evaluator on its own *)

\* element values of a prediction or target batch, in units of 0.01
BatchValues == {-150, -40, 0, 50, 110}

\* the batches of one shape
Batches(n) == [1..n -> BatchValues]

\* the notebook with some prediction batch and some target batch of the
\* same shape, before the loss cell has run
InitLoss ==
    /\ \E n \in 1..MaxBatch :
          /\ noGradPred \in {<<p>> : p \in Batches(n)}
          /\ targets \in Batches(n)
          /\ inputs = [i \in 1..n |-> 0]
    /\ params = <<0, 0>>
    /\ grad = NoGrad
    /\ optimizer = NoOptimizer
    /\ pc = "idle"
    /\ ctx = "none"
    /\ predictions = <<>>
    /\ loss = <<>>
    /\ epoch = 0
    /\ num_epochs = 0
    /\ log_interval = 0
    /\ loss_history = <<>>
    /\ result = NoResult
    /\ cellRuns = 0
    /\ totalSteps = 0
    /\ stepCalls = 0
    /\ trace = <<>>
    /\ epochLoss = <<>>
    /\ fwdParams = <<>>
    /\ atCall = [params |-> params, optimizer |-> NoOptimizer]
    /\ stepParams = params
    /\ InitBuild
    /\ InitData

\* loss = loss_fn(initial_predictions, expected_return_tensor)
LossCell ==
    /\ pc = "idle"
    /\ noGradPred # <<>>
    /\ loss' = <<MSELoss(noGradPred[1], targets)>>
    /\ UNCHANGED <<params, grad, optimizer, inputs, targets, pc, ctx,
                   predictions, epoch, num_epochs, log_interval,
                   loss_history, result, noGradPred, cellRuns, totalSteps,
                   stepCalls, trace, epochLoss, fwdParams, atCall>>
    /\ UNCHANGED <<stepParams, buildVars, dataVars>>

SpecLoss == InitLoss /\ [][LossCell]_vars

\* C13: for prediction and target batches p, t of one shape the loss is
\* symmetric, MSE(p, t) = MSE(t, p), and MSE(p, p) = 0.
C13_LossSymmetricAndZeroOnEqual ==
    loss # <<>> =>
        /\ loss[1] = MSELoss(targets, noGradPred[1])
        /\ (noGradPred[1] = targets => loss[1] = 0)
        /\ loss[1] >= 0

C13_Witness ==
    /\ loss # <<>>
    /\ Len(targets) = 2
    /\ noGradPred[1] # targets
    /\ loss[1] > 0
    /\ loss[1] = MSELoss(targets, noGradPred[1])

---------------------------------------------------------------------------
(* Claims about what train_network records and how it fails *)

\* the loss of the model as it stands
CurrentLoss == MSELoss(ModelForward(params, inputs), targets)

\* the loss of epoch j is the loss of the parameters its forward pass read
LossIsOfForwardParams ==
    \A j \in 1..Len(epochLoss) :
        epochLoss[j] = MSELoss(ModelForward(fwdParams[j], inputs), targets)

\* the parameters a forward pass reads are those left by the updates of
\* the earlier epochs of the call, and the step that follows is one more
UpdatesBeforeForward ==
    /\ (pc \in {"loss", "zero_grad", "backward", "step"} =>
           /\ fwdParams[Len(fwdParams)] = params
           /\ optimizer.t = atCall.optimizer.t + Len(fwdParams) - 1)
    /\ (pc = "log" =>
           /\ optimizer.t = atCall.optimizer.t + Len(fwdParams)
           /\ Len(fwdParams) = epoch + 1
           /\ params = stepParams)

\* C14 as stated: the loss recorded for epoch k * L is the loss computed
\* before that epoch's step, and the last recorded loss is never the loss
\* of the parameters the returned model holds.
C14_LastRecordedNeverFinalLoss ==
    (Returned /\ log_interval >= 1 /\ result.history # <<>>) =>
        /\ LossIsOfForwardParams
        /\ result.history[Len(result.history)] # CurrentLoss

\* C14 as amended: the loss recorded for epoch k * L is the loss computed
\* before that epoch's optimizer step, from the parameters as they stood
\* after k * L - 1 updates of the call; it is not computed again after the
\* step.  (It can still equal the loss of the parameters after the step:
\* a zero gradient makes the step change nothing.)
C14_RecordedLossIsPreStep ==
    (ctx = "train" /\ log_interval >= 1) =>
        /\ LossIsOfForwardParams
        /\ UpdatesBeforeForward
        /\ \A k \in 1..Len(loss_history) :
               /\ k * log_interval <= Len(fwdParams)
               /\ loss_history[k] =
                      MSELoss(ModelForward(fwdParams[k * log_interval], inputs),
                              targets)
        /\ (Returned => result.history = loss_history)

C14_Witness ==
    /\ Returned
    /\ num_epochs = 4
    /\ log_interval = 2
    /\ Len(result.history) = 2
    /\ fwdParams[4] # params
    /\ result.history[2] # CurrentLoss
    /\ result.history[2] = MSELoss(ModelForward(fwdParams[4], inputs), targets)

\* C15: a call with log_interval = 0 and num_epochs >= 1 fails in the
\* logging test of the first epoch, after that epoch's optimizer step: no
\* history is returned and the parameters and the optimizer have advanced
\* by exactly one step; with num_epochs = 0 the call returns an empty
\* history without error.
C15_ZeroIntervalFailsAfterFirstStep ==
    (ctx = "train" /\ log_interval = 0) =>
        /\ epoch = 0
        /\ Len(trace) <= 5
        /\ (pc = "idle" /\ num_epochs = 0) =>
               /\ result = [kind |-> "returned", history |-> <<>>]
               /\ params = atCall.params
               /\ optimizer = atCall.optimizer
        /\ (pc = "idle" /\ num_epochs >= 1) =>
               /\ result = [kind |-> "ZeroDivisionError", history |-> <<>>]
               /\ trace = EpochOps
               /\ optimizer = AdamState(atCall.optimizer, grad)
               /\ optimizer.t = atCall.optimizer.t + 1
               /\ params = AdamParams(atCall.optimizer, atCall.params, grad)

C15_Witness ==
    /\ ctx = "train"
    /\ pc = "idle"
    /\ log_interval = 0
    /\ num_epochs = 3
    /\ result.kind = "ZeroDivisionError"
    /\ params # atCall.params
    /\ optimizer.t = atCall.optimizer.t + 1

====
